---- MODULE Spec2Model ----
(***************************************************************************)
(* Relationship inference of schema-graph-builder                          *)
(* (src/inference/relationship_inference.py).                              *)
(*                                                                         *)
(* Strings are sequences of one-character strings, so that lower(),        *)
(* endswith(), slicing, split() and join() are computed character by       *)
(* character. A Python dict with string keys is a function whose DOMAIN is *)
(* its key set (a missing key is a key outside the DOMAIN); a dict keyed   *)
(* by names is a sequence of <<key, value>> pairs in insertion order,      *)
(* which is the order Python iterates it in. Confidences are in            *)
(* hundredths (1.0 is 100, 0.95 is 95).                                    *)
(***************************************************************************)
EXTENDS Integers, Sequences, FiniteSets, TLC

VARIABLES
    schema,     \* the argument of infer_relationships
    pc,         \* "input" or "malformed" before the call, "returned" or "raised" after it
    result,     \* the mapping returned (insertion-ordered) or the error raised
    graph,      \* the graph build_graph made of schema and result, or NoGraph
    hash_seed,  \* the string-hash seed of the interpreter: fixes set iteration order
    previous,   \* what the call before the last one returned, or NotCalled
    heap,       \* the dicts and lists of two invocations, by object identity
    calls,      \* per invocation: where it is in infer_relationships
    self,       \* the SchemaGraphBuilder: last_schema, last_relationships
    files,      \* the paths of the files that exist
    api,        \* the last call of a SchemaGraphBuilder method and its outcome
    args,       \* the names a helper of the inference module is called with
    value,      \* which helper was called with args and what it returned
    connector   \* a DatabaseConnector: its engine and where extract_schema is

vars == <<schema, pc, result, graph, hash_seed, previous, heap, calls, self,
          files, api, args, value, connector>>

(***************************************************************************)
(* Bounds and input pools                                                  *)
(***************************************************************************)

\* Total number of column entries of an input schema.
MaxColumns == 3

\* Column names the inputs draw from: "id", "a_id", "aid", "A_ID".
ColumnNames ==
    { <<"i", "d">>, <<"a", "_", "i", "d">>, <<"a", "i", "d">>,
      <<"A", "_", "I", "D">> }

\* Table names the inputs draw from: "As", "a_b", "a.b".
TableNames ==
    { <<"A", "s">>, <<"a", "_", "b">>, <<"a", ".", "b">> }

(***************************************************************************)
(* Python values                                                           *)
(***************************************************************************)

\* None. No name is equal to it: names are sequences of single characters.
Null == <<"None">>

\* A call that returned value v / that raised KeyError(key).
Return(v) == [kind |-> "return", value |-> v]

Raise(key) == [kind |-> "raise", error |-> "KeyError", key |-> key]

IsRaise(r) == r.kind = "raise"

\* d.get(k, default)
DictGet(d, k, default) == IF k \in DOMAIN d THEN d[k] ELSE default

\* bool(s) of a string or None
Truthy(s) == s # Null /\ s # <<>>

\* Insertion-ordered dict keyed by names: d[k] = v.
RECURSIVE KeyIndex(_, _, _)
KeyIndex(d, k, i) ==
    IF i > Len(d) THEN 0
    ELSE IF d[i][1] = k THEN i
    ELSE KeyIndex(d, k, i + 1)

HasKey(d, k) == KeyIndex(d, k, 1) # 0

DictSet(d, k, v) ==
    IF HasKey(d, k)
    THEN [d EXCEPT ![KeyIndex(d, k, 1)] = <<k, v>>]
    ELSE Append(d, <<k, v>>)

\* d.get(k) of an insertion-ordered dict (None when absent)
Lookup(d, k) == IF HasKey(d, k) THEN d[KeyIndex(d, k, 1)][2] ELSE Null

Keys(d) == { d[i][1] : i \in 1..Len(d) }

(***************************************************************************)
(* String operations                                                       *)
(***************************************************************************)

UpperToLower ==
    [c \in {"A", "B", "D", "I", "S"} |->
        CASE c = "A" -> "a" [] c = "B" -> "b" [] c = "D" -> "d"
          [] c = "I" -> "i" [] c = "S" -> "s"]

\* str.lower()
Lower(s) ==
    [i \in 1..Len(s) |->
        IF s[i] \in DOMAIN UpperToLower THEN UpperToLower[s[i]] ELSE s[i]]

\* str.endswith(suffix)
EndsWith(s, suffix) ==
    /\ Len(s) >= Len(suffix)
    /\ SubSeq(s, Len(s) - Len(suffix) + 1, Len(s)) = suffix

\* needle in haystack, for strings
IsSubstring(needle, haystack) ==
    \E i \in 1..(Len(haystack) + 1) :
        /\ i + Len(needle) - 1 <= Len(haystack)
        /\ SubSeq(haystack, i, i + Len(needle) - 1) = needle

\* ord(c) of the characters names are made of.
CodePoint ==
    [c \in {".", "A", "D", "I", "S", "_", "a", "b", "d", "i", "s"} |->
        CASE c = "." -> 46 [] c = "A" -> 65 [] c = "D" -> 68 [] c = "I" -> 73
          [] c = "S" -> 83 [] c = "_" -> 95 [] c = "a" -> 97 [] c = "b" -> 98
          [] c = "d" -> 100 [] c = "i" -> 105 [] c = "s" -> 115]

\* a < b for strings
RECURSIVE StrLess(_, _)
StrLess(a, b) ==
    IF b = <<>> THEN FALSE
    ELSE IF a = <<>> THEN TRUE
    ELSE IF CodePoint[Head(a)] # CodePoint[Head(b)]
         THEN CodePoint[Head(a)] < CodePoint[Head(b)]
    ELSE StrLess(Tail(a), Tail(b))

\* str.split(sep) for a one-character separator: empty parts are kept.
RECURSIVE Split(_, _)
Split(s, sep) ==
    IF \A i \in 1..Len(s) : s[i] # sep THEN << s >>
    ELSE LET i == CHOOSE j \in 1..Len(s) :
                      s[j] = sep /\ \A k \in 1..(j - 1) : s[k] # sep
         IN  << SubSeq(s, 1, i - 1) >> \o Split(SubSeq(s, i + 1, Len(s)), sep)

\* ''.join(parts)
RECURSIVE Join(_)
Join(parts) ==
    IF parts = <<>> THEN <<>> ELSE Head(parts) \o Join(Tail(parts))

\* f'{table}.{column}'
FormatReference(table, column) == table \o << "." >> \o column

(***************************************************************************)
(* src/inference/relationship_inference.py                                 *)
(***************************************************************************)

\* The suffixes _extract_base_name removes, in the order it tries them.
Suffixes == << <<"_", "i", "d">>, <<"i", "d">> >>

RECURSIVE StripFirstSuffix(_, _)
StripFirstSuffix(name, i) ==
    IF i > Len(Suffixes) THEN name
    ELSE IF EndsWith(name, Suffixes[i])
         THEN SubSeq(name, 1, Len(name) - Len(Suffixes[i]))
         ELSE StripFirstSuffix(name, i + 1)

\* _extract_base_name trying the suffix 'id' before '_id'.
BareIdFirst(name) ==
    IF EndsWith(name, <<"i", "d">>) THEN SubSeq(name, 1, Len(name) - 2)
    ELSE IF EndsWith(name, <<"_", "i", "d">>)
         THEN SubSeq(name, 1, Len(name) - 3)
    ELSE name

_extract_base_name(name) == StripFirstSuffix(name, 1)

\* The variants without the parts joined.
VariantSetNoJoin(table_name) ==
    LET parts == Split(table_name, "_")
    IN  { table_name }
        \cup (IF \E i \in 1..Len(table_name) : table_name[i] = "_"
              THEN { parts[i] : i \in 1..Len(parts) } ELSE {})
        \cup (IF EndsWith(table_name, <<"s">>) /\ Len(table_name) > 1
              THEN { SubSeq(table_name, 1, Len(table_name) - 1) } ELSE {})
        \cup (IF ~EndsWith(table_name, <<"s">>)
              THEN { table_name \o <<"s">> } ELSE {})

\* set(variants) at line 154: the variants without duplicates.
VariantSet(table_name) ==
    LET parts == Split(table_name, "_")
        split_variants ==
            IF \E i \in 1..Len(table_name) : table_name[i] = "_"
            THEN { parts[i] : i \in 1..Len(parts) } \cup { Join(parts) }
            ELSE {}
        singular ==
            IF EndsWith(table_name, <<"s">>) /\ Len(table_name) > 1
            THEN { SubSeq(table_name, 1, Len(table_name) - 1) }
            ELSE {}
        plural ==
            IF ~EndsWith(table_name, <<"s">>)
            THEN { table_name \o <<"s">> }
            ELSE {}
    IN  { table_name } \cup split_variants \cup singular \cup plural

\* The strings of S in ascending order.
RECURSIVE SortedSeq(_)
SortedSeq(S) ==
    IF S = {} THEN <<>>
    ELSE LET m == CHOOSE x \in S : \A y \in S : ~StrLess(y, x)
         IN  << m >> \o SortedSeq(S \ {m})

\* The seeds: a set of strings is iterated from any one of its elements on,
\* in either direction.
MaxRotate == 3

Seeds == [reverse : BOOLEAN, rotate : 0..MaxRotate]

DefaultSeed == [reverse |-> FALSE, rotate |-> 0]

\* list(S) of a set of strings: its elements in the order the hash seed
\* of the running interpreter gives them.
SetOrder(S) ==
    LET sorted == SortedSeq(S)
        n == Len(sorted)
        rotated == [i \in 1..n |-> sorted[((i - 1 + hash_seed.rotate) % n) + 1]]
    IN  IF hash_seed.reverse THEN [i \in 1..n |-> rotated[n + 1 - i]]
        ELSE rotated

\* x in list
Contains(list, x) == \E i \in 1..Len(list) : list[i] = x

_get_table_name_variants(table_name) == SetOrder(VariantSet(table_name))

\* _is_foreign_key_match looking only at the first of the table variants.
FirstVariantMatch(column_name, ref_pk, ref_table_name) ==
    LET column_lower == Lower(column_name)
        ref_pk_lower == Lower(ref_pk)
        ref_table_lower == Lower(ref_table_name)
        column_base == _extract_base_name(column_lower)
        ref_base == _extract_base_name(ref_pk_lower)
    IN  IF column_lower = ref_pk_lower THEN TRUE
        ELSE IF Truthy(column_base) /\ Truthy(ref_base) /\ column_base = ref_base
             THEN TRUE
        ELSE /\ Truthy(column_base)
             /\ column_base = _get_table_name_variants(ref_table_lower)[1]

\* _is_foreign_key_match looking an empty base name up in the variants too.
EmptyBaseMatch(column_name, ref_pk, ref_table_name) ==
    LET column_lower == Lower(column_name)
        ref_pk_lower == Lower(ref_pk)
        ref_table_lower == Lower(ref_table_name)
        column_base == _extract_base_name(column_lower)
        ref_base == _extract_base_name(ref_pk_lower)
    IN  IF column_lower = ref_pk_lower THEN TRUE
        ELSE IF Truthy(column_base) /\ Truthy(ref_base) /\ column_base = ref_base
             THEN TRUE
        ELSE Contains(_get_table_name_variants(ref_table_lower), column_base)

\* _is_foreign_key_match accepting, besides, a column whose base name is
\* part of the base name of the primary key.
SubstringMatch(column_name, ref_pk, ref_table_name) ==
    LET column_lower == Lower(column_name)
        ref_pk_lower == Lower(ref_pk)
        ref_table_lower == Lower(ref_table_name)
        column_base == _extract_base_name(column_lower)
        ref_base == _extract_base_name(ref_pk_lower)
    IN  IF column_lower = ref_pk_lower THEN TRUE
        ELSE IF Truthy(column_base) /\ Truthy(ref_base) /\ column_base = ref_base
             THEN TRUE
        ELSE IF Truthy(column_base)
                /\ Contains(_get_table_name_variants(ref_table_lower), column_base)
             THEN TRUE
        ELSE IsSubstring(column_base, ref_base)

_is_foreign_key_match(column_name, ref_pk, ref_table_name) ==
    LET column_lower == Lower(column_name)
        ref_pk_lower == Lower(ref_pk)
        ref_table_lower == Lower(ref_table_name)
        column_base == _extract_base_name(column_lower)
        ref_base == _extract_base_name(ref_pk_lower)
    IN  IF column_lower = ref_pk_lower THEN TRUE
        ELSE IF Truthy(column_base) /\ Truthy(ref_base) /\ column_base = ref_base
             THEN TRUE
        ELSE IF Truthy(column_base)
                /\ Contains(_get_table_name_variants(ref_table_lower), column_base)
             THEN TRUE
        ELSE FALSE

ConfidenceExact == 100
ConfidenceBase == 95
ConfidenceVariant == 90
ConfidencePartial == 70
ConfidenceDefault == 50

\* _calculate_confidence with the table-name-variant test tried before the
\* base-name test.
VariantBeforeBaseConfidence(column_name, ref_pk, ref_table_name) ==
    LET column_lower == Lower(column_name)
        ref_pk_lower == Lower(ref_pk)
        ref_table_lower == Lower(ref_table_name)
        column_base == _extract_base_name(column_lower)
        ref_base == _extract_base_name(ref_pk_lower)
    IN  IF column_lower = ref_pk_lower THEN ConfidenceExact
        ELSE IF Truthy(column_base)
                /\ Contains(_get_table_name_variants(ref_table_lower), column_base)
             THEN ConfidenceVariant
        ELSE IF column_base = ref_base /\ Truthy(column_base)
             THEN ConfidenceBase
        ELSE ConfidenceDefault

\* _calculate_confidence adding up the scores of all the tests that pass
\* instead of returning at the first.
AdditiveConfidence(column_name, ref_pk, ref_table_name) ==
    LET column_lower == Lower(column_name)
        ref_pk_lower == Lower(ref_pk)
        ref_table_lower == Lower(ref_table_name)
        column_base == _extract_base_name(column_lower)
        ref_base == _extract_base_name(ref_pk_lower)
    IN  (IF column_lower = ref_pk_lower THEN ConfidenceExact ELSE 0)
        + (IF column_base = ref_base /\ Truthy(column_base)
           THEN ConfidenceBase ELSE 0)
        + (IF Truthy(column_base)
              /\ Contains(_get_table_name_variants(ref_table_lower), column_base)
           THEN ConfidenceVariant ELSE 0)

_calculate_confidence(column_name, ref_pk, ref_table_name) ==
    LET column_lower == Lower(column_name)
        ref_pk_lower == Lower(ref_pk)
        ref_table_lower == Lower(ref_table_name)
        column_base == _extract_base_name(column_lower)
        ref_base == _extract_base_name(ref_pk_lower)
    IN  IF column_lower = ref_pk_lower THEN ConfidenceExact
        ELSE IF column_base = ref_base /\ Truthy(column_base)
             THEN ConfidenceBase
        ELSE IF Truthy(column_base)
                /\ Contains(_get_table_name_variants(ref_table_lower), column_base)
             THEN ConfidenceVariant
        ELSE IF Truthy(column_base) /\ Truthy(ref_base)
                /\ (\/ IsSubstring(column_base, ref_base)
                    \/ IsSubstring(ref_base, column_base))
             THEN ConfidencePartial
        ELSE ConfidenceDefault

\* _find_primary_key returning the last flagged column instead of the first.
RECURSIVE LastFlaggedFrom(_, _)
LastFlaggedFrom(columns, i) ==
    IF i > Len(columns) THEN Return(Null)
    ELSE LET rest == LastFlaggedFrom(columns, i + 1)
         IN  IF IsRaise(rest) \/ rest.value # Null THEN rest
             ELSE IF DictGet(columns[i], "primary_key", FALSE)
                  THEN IF "name" \in DOMAIN columns[i]
                       THEN Return(columns[i]["name"])
                       ELSE Raise("name")
                  ELSE rest

\* _find_primary_key falling back to the first column when none is flagged.
FirstColumnFallback(columns, i) ==
    LET flagged == { c \in i..Len(columns) :
                       DictGet(columns[c], "primary_key", FALSE) }
        pick == IF flagged = {} THEN i
                ELSE CHOOSE c \in flagged : \A d \in flagged : c <= d
    IN  IF i > Len(columns) THEN Return(Null)
        ELSE IF "name" \in DOMAIN columns[pick]
             THEN Return(columns[pick]["name"])
             ELSE Raise("name")

\* _find_primary_key passing over the flagged columns that are nullable.
RECURSIVE FindNotNullableFrom(_, _)
FindNotNullableFrom(columns, i) ==
    IF i > Len(columns) THEN Return(Null)
    ELSE IF DictGet(columns[i], "primary_key", FALSE)
            /\ ~DictGet(columns[i], "nullable", FALSE)
         THEN IF "name" \in DOMAIN columns[i]
              THEN Return(columns[i]["name"])
              ELSE Raise("name")
         ELSE FindNotNullableFrom(columns, i + 1)

\* The for loop of _find_primary_key, from column i on.
RECURSIVE FindPrimaryKeyFrom(_, _)
FindPrimaryKeyFrom(columns, i) ==
    IF i > Len(columns) THEN Return(Null)
    ELSE IF DictGet(columns[i], "primary_key", FALSE)
         THEN IF "name" \in DOMAIN columns[i]
              THEN Return(columns[i]["name"])
              ELSE Raise("name")
         ELSE FindPrimaryKeyFrom(columns, i + 1)

_find_primary_key(table) ==
    IF "columns" \notin DOMAIN table THEN Raise("columns")
    ELSE FindPrimaryKeyFrom(table["columns"], 1)

\* The first loop of infer_relationships (lines 36-39), from table i on:
\* table_primary_keys, or the KeyError that ends the call.
RECURSIVE BuildPrimaryKeys(_, _, _)
BuildPrimaryKeys(tables, i, table_primary_keys) ==
    IF i > Len(tables) THEN Return(table_primary_keys)
    ELSE IF "name" \notin DOMAIN tables[i] THEN Raise("name")
    ELSE LET pk == _find_primary_key(tables[i])
         IN  IF IsRaise(pk) THEN pk
             ELSE BuildPrimaryKeys(tables, i + 1,
                      DictSet(table_primary_keys, tables[i]["name"], pk.value))

\* The innermost loop without `break`: every matching table is recorded.
RECURSIVE MatchColumnNoBreak(_, _, _, _)
MatchColumnNoBreak(table_name, column_name, table_primary_keys, j) ==
    IF j > Len(table_primary_keys) THEN <<>>
    ELSE LET ref_table_name == table_primary_keys[j][1]
             ref_pk == table_primary_keys[j][2]
             rest == MatchColumnNoBreak(table_name, column_name,
                                        table_primary_keys, j + 1)
         IN  IF ref_table_name # table_name /\ Truthy(ref_pk)
                /\ _is_foreign_key_match(column_name, ref_pk, ref_table_name)
             THEN << [column |-> column_name,
                      references |-> FormatReference(ref_table_name, ref_pk),
                      confidence |->
                          _calculate_confidence(column_name, ref_pk,
                                                ref_table_name)] >> \o rest
             ELSE rest

\* The innermost loop taking the best match instead of the first: of all
\* matching tables, the first one with the highest confidence.
MatchColumnBest(table_name, column_name, table_primary_keys, j) ==
    LET all == MatchColumnNoBreak(table_name, column_name, table_primary_keys, j)
        best == CHOOSE i \in 1..Len(all) :
                    /\ \A k \in 1..Len(all) : all[k].confidence <= all[i].confidence
                    /\ \A k \in 1..(i - 1) : all[k].confidence < all[i].confidence
    IN  IF all = <<>> THEN <<>> ELSE << all[best] >>

\* The innermost loop formatting `references` from the lowercased names it
\* compared.
RECURSIVE MatchColumnLower(_, _, _, _)
MatchColumnLower(table_name, column_name, table_primary_keys, j) ==
    IF j > Len(table_primary_keys) THEN <<>>
    ELSE LET ref_table_name == table_primary_keys[j][1]
             ref_pk == table_primary_keys[j][2]
         IN  IF ref_table_name # table_name /\ Truthy(ref_pk)
                /\ _is_foreign_key_match(column_name, ref_pk, ref_table_name)
             THEN << [column |-> column_name,
                      references |-> FormatReference(Lower(ref_table_name),
                                                     Lower(ref_pk)),
                      confidence |->
                          _calculate_confidence(column_name, ref_pk,
                                                ref_table_name)] >>
             ELSE MatchColumnLower(table_name, column_name, table_primary_keys,
                                   j + 1)

\* The innermost loop without the `ref_table_name == table_name` test.
RECURSIVE MatchColumnSelf(_, _, _, _)
MatchColumnSelf(table_name, column_name, table_primary_keys, j) ==
    IF j > Len(table_primary_keys) THEN <<>>
    ELSE LET ref_table_name == table_primary_keys[j][1]
             ref_pk == table_primary_keys[j][2]
         IN  IF Truthy(ref_pk)
                /\ _is_foreign_key_match(column_name, ref_pk, ref_table_name)
             THEN << [column |-> column_name,
                      references |-> FormatReference(ref_table_name, ref_pk),
                      confidence |->
                          _calculate_confidence(column_name, ref_pk,
                                                ref_table_name)] >>
             ELSE MatchColumnSelf(table_name, column_name, table_primary_keys,
                                  j + 1)

\* The innermost loop (lines 57-70), from item j of table_primary_keys on:
\* the foreign key of the first table that matches, as a list of zero or
\* one entries.
RECURSIVE MatchColumn(_, _, _, _)
MatchColumn(table_name, column_name, table_primary_keys, j) ==
    IF j > Len(table_primary_keys) THEN <<>>
    ELSE LET ref_table_name == table_primary_keys[j][1]
             ref_pk == table_primary_keys[j][2]
         IN  IF ref_table_name = table_name
             THEN MatchColumn(table_name, column_name, table_primary_keys, j + 1)
             ELSE IF Truthy(ref_pk)
                     /\ _is_foreign_key_match(column_name, ref_pk, ref_table_name)
                  THEN << [column |-> column_name,
                           references |-> FormatReference(ref_table_name, ref_pk),
                           confidence |->
                               _calculate_confidence(column_name, ref_pk,
                                                     ref_table_name)] >>
                  ELSE MatchColumn(table_name, column_name, table_primary_keys,
                                   j + 1)

\* The column loop without the `if column['primary_key']: continue` test.
RECURSIVE ScanColumnsNoSkip(_, _, _, _, _)
ScanColumnsNoSkip(table_name, columns, table_primary_keys, i, foreign_keys) ==
    IF i > Len(columns) THEN Return(foreign_keys)
    ELSE IF "primary_key" \notin DOMAIN columns[i] THEN Raise("primary_key")
    ELSE IF "name" \notin DOMAIN columns[i] THEN Raise("name")
    ELSE ScanColumnsNoSkip(table_name, columns, table_primary_keys, i + 1,
             foreign_keys \o MatchColumn(table_name, columns[i]["name"],
                                         table_primary_keys, 1))

\* The column loop inserting each foreign key at the front of the list.
RECURSIVE ScanColumnsPrepend(_, _, _, _, _)
ScanColumnsPrepend(table_name, columns, table_primary_keys, i, foreign_keys) ==
    IF i > Len(columns) THEN Return(foreign_keys)
    ELSE IF "primary_key" \notin DOMAIN columns[i] THEN Raise("primary_key")
    ELSE IF columns[i]["primary_key"]
         THEN ScanColumnsPrepend(table_name, columns, table_primary_keys, i + 1,
                                 foreign_keys)
    ELSE IF "name" \notin DOMAIN columns[i] THEN Raise("name")
    ELSE ScanColumnsPrepend(table_name, columns, table_primary_keys, i + 1,
             MatchColumn(table_name, columns[i]["name"], table_primary_keys, 1)
                 \o foreign_keys)

\* The column loop skipping the column reported as the table's primary key
\* instead of every flagged column.
RECURSIVE ScanColumnsSkipReported(_, _, _, _, _)
ScanColumnsSkipReported(table_name, columns, table_primary_keys, i, foreign_keys) ==
    IF i > Len(columns) THEN Return(foreign_keys)
    ELSE IF "primary_key" \notin DOMAIN columns[i] THEN Raise("primary_key")
    ELSE IF "name" \notin DOMAIN columns[i] THEN Raise("name")
    ELSE IF columns[i]["name"] = Lookup(table_primary_keys, table_name)
         THEN ScanColumnsSkipReported(table_name, columns, table_primary_keys,
                                      i + 1, foreign_keys)
    ELSE ScanColumnsSkipReported(table_name, columns, table_primary_keys, i + 1,
             foreign_keys \o MatchColumn(table_name, columns[i]["name"],
                                         table_primary_keys, 1))

\* The column loop (lines 50-70), from column i on: the foreign_keys list,
\* or the KeyError that ends the call.
RECURSIVE ScanColumns(_, _, _, _, _)
ScanColumns(table_name, columns, table_primary_keys, i, foreign_keys) ==
    IF i > Len(columns) THEN Return(foreign_keys)
    ELSE IF "primary_key" \notin DOMAIN columns[i] THEN Raise("primary_key")
    ELSE IF columns[i]["primary_key"]
         THEN ScanColumns(table_name, columns, table_primary_keys, i + 1,
                          foreign_keys)
    ELSE IF "name" \notin DOMAIN columns[i] THEN Raise("name")
    ELSE ScanColumns(table_name, columns, table_primary_keys, i + 1,
                     foreign_keys \o MatchColumn(table_name, columns[i]["name"],
                                                 table_primary_keys, 1))

\* The second loop creating a table's record only once it has a foreign key.
RECURSIVE BuildRelationshipsLazy(_, _, _, _)
BuildRelationshipsLazy(tables, table_primary_keys, i, relationships) ==
    IF i > Len(tables) THEN Return(relationships)
    ELSE IF "name" \notin DOMAIN tables[i] THEN Raise("name")
    ELSE IF "columns" \notin DOMAIN tables[i] THEN Raise("columns")
    ELSE LET table_name == tables[i]["name"]
             fks == ScanColumns(table_name, tables[i]["columns"],
                                table_primary_keys, 1, <<>>)
         IN  IF IsRaise(fks) THEN fks
             ELSE BuildRelationshipsLazy(tables, table_primary_keys, i + 1,
                      IF fks.value = <<>> THEN relationships
                      ELSE DictSet(relationships, table_name,
                              [primary_key |-> Lookup(table_primary_keys, table_name),
                               foreign_keys |-> fks.value]))

\* The second loop (lines 42-70), from table i on: relationships, or the
\* KeyError that ends the call.
RECURSIVE BuildRelationships(_, _, _, _)
BuildRelationships(tables, table_primary_keys, i, relationships) ==
    IF i > Len(tables) THEN Return(relationships)
    ELSE IF "name" \notin DOMAIN tables[i] THEN Raise("name")
    ELSE IF "columns" \notin DOMAIN tables[i] THEN Raise("columns")
    ELSE LET table_name == tables[i]["name"]
             fks == ScanColumns(table_name, tables[i]["columns"],
                                table_primary_keys, 1, <<>>)
         IN  IF IsRaise(fks) THEN fks
             ELSE BuildRelationships(tables, table_primary_keys, i + 1,
                      DictSet(relationships, table_name,
                              [primary_key |-> Lookup(table_primary_keys, table_name),
                               foreign_keys |-> fks.value]))

\* infer_relationships reading schema['tables'] instead of
\* schema.get('tables', []).
StrictTables(s) ==
    IF "tables" \notin DOMAIN s THEN Raise("tables")
    ELSE LET table_primary_keys == BuildPrimaryKeys(s["tables"], 1, <<>>)
         IN  IF IsRaise(table_primary_keys) THEN table_primary_keys
             ELSE BuildRelationships(s["tables"], table_primary_keys.value, 1,
                                     <<>>)

infer_relationships(s) ==
    LET tables == DictGet(s, "tables", <<>>)
        table_primary_keys == BuildPrimaryKeys(tables, 1, <<>>)
    IN  IF IsRaise(table_primary_keys) THEN table_primary_keys
        ELSE BuildRelationships(tables, table_primary_keys.value, 1, <<>>)

(***************************************************************************)
(* yaml.dump / yaml.safe_load of the relationships (api.py), and           *)
(* src/graph/graph_builder.py over networkx.DiGraph                        *)
(***************************************************************************)

\* The items of mapping d in sorted key order.
RECURSIVE SortedItems(_)
SortedItems(d) ==
    IF d = <<>> THEN <<>>
    ELSE LET m == CHOOSE i \in 1..Len(d) :
                      \A j \in 1..Len(d) : ~StrLess(d[j][1], d[i][1])
         IN  << d[m] >>
             \o SortedItems([k \in 1..(Len(d) - 1) |->
                                 IF k < m THEN d[k] ELSE d[k + 1]])

\* yaml.safe_load(yaml.dump(relationships, default_flow_style=False)):
\* dump writes every mapping with its keys sorted, scalars and lists keep
\* their values, and safe_load builds the mappings in file order.
YamlRoundTrip(relationships) == SortedItems(relationships)

\* nx.DiGraph(): node -> attributes and (u, v) -> attributes, both in
\* insertion order.
DiGraph == [nodes |-> <<>>, edges |-> <<>>]

NoAttributes == [k \in {} |-> k]

\* G.add_node(n, **attr): a new node, or new attributes for an old one.
add_node(G, n, attr) == [G EXCEPT !.nodes = DictSet(@, n, attr)]

\* G.add_edge(u, v, **attr): u and v become nodes when they are not yet;
\* a DiGraph holds one edge per ordered pair, so a second add_edge of the
\* same pair overwrites the attributes of the first.
add_edge(G, u, v, attr) ==
    LET withU == IF HasKey(G.nodes, u) THEN G
                 ELSE add_node(G, u, NoAttributes)
        withV == IF HasKey(withU.nodes, v) THEN withU
                 ELSE add_node(withU, v, NoAttributes)
    IN  [withV EXCEPT !.edges = DictSet(@, <<u, v>>, attr)]

\* Lines 31-35: one add_node per table of schema['tables'].
RECURSIVE AddTableNodes(_, _, _)
AddTableNodes(G, tables, i) ==
    IF i > Len(tables) THEN G
    ELSE AddTableNodes(
             add_node(G, tables[i]["name"],
                      [columns |-> Len(tables[i]["columns"]),
                       label |-> tables[i]["name"]]),
             tables, i + 1)

\* fk['references'].split('.')[0]
TargetOf(references) == Split(references, ".")[1]

\* Lines 39-43: one add_edge per entry of foreign_keys.
RECURSIVE AddForeignKeyEdges(_, _, _, _)
AddForeignKeyEdges(G, table_name, foreign_keys, k) ==
    IF k > Len(foreign_keys) THEN G
    ELSE AddForeignKeyEdges(
             add_edge(G, table_name, TargetOf(foreign_keys[k].references),
                      [label |-> foreign_keys[k].column,
                       confidence |-> foreign_keys[k].confidence]),
             table_name, foreign_keys, k + 1)

\* Lines 38-43: the loop over relationships.items().
RECURSIVE AddRelationshipEdges(_, _, _)
AddRelationshipEdges(G, relationships, i) ==
    IF i > Len(relationships) THEN G
    ELSE AddRelationshipEdges(
             AddForeignKeyEdges(G, relationships[i][1],
                                relationships[i][2].foreign_keys, 1),
             relationships, i + 1)

\* The graph G build_graph saves, for the relationships loaded from the file.
build_graph(s, relationships) ==
    AddRelationshipEdges(AddTableNodes(DiGraph, s["tables"], 1),
                         relationships, 1)

(***************************************************************************)
(* The state machine: the caller assembles a schema the way the extraction *)
(* layer does (tables appended in order, columns appended to the last      *)
(* table), then calls infer_relationships once.                            *)
(***************************************************************************)

NotCalled == [kind |-> "none"]

NoGraph == [kind |-> "none"]

TotalColumns(tables) ==
    LET RECURSIVE Sum(_)
        Sum(i) == IF i = 0 THEN 0
                  ELSE Len(DictGet(tables[i], "columns", <<>>)) + Sum(i - 1)
    IN  Sum(Len(tables))

\* None as an optional schema or mapping; Some(v) is the mapping v.
None == [kind |-> "None"]

Some(v) == [kind |-> "mapping", value |-> v]

\* No method of the builder has been called.
NoCall == [method |-> "none"]

\* The names before a caller has written them.
NoNames == [column_name |-> <<>>, ref_pk |-> <<>>, ref_table_name |-> <<>>]

\* DatabaseConnector.__init__: self.engine = None (line 41).
NewConnector ==
    [engine |-> None, pc |-> "idle", error |-> None, failed |-> None,
     created |-> 0, disposed |-> {}, dispose_raised |-> {}, outcomes |-> <<>>]

\* Two invocations of infer_relationships, each on a schema of its own.
Invocations == {1, 2}

\* The objects of the program are kept by identity: heap maps the address of
\* every dict and list to its contents, and a dict or list holds its
\* mutable members by address, its strings, booleans and numbers by value.
\* Before the callers fill them: schema = {'tables': []} for each invocation.
EmptySchemas ==
    [a \in { <<k, p>> : k \in {"schema", "tables"}, p \in Invocations } |->
        IF a[1] = "schema"
        THEN [kind |-> "schema", tables |-> <<"tables", a[2]>>]
        ELSE [kind |-> "list", items |-> <<>>]]

Idle == [pc |-> "idle", i |-> 0, given |-> <<>>, overlapped |-> FALSE,
         mutated |-> FALSE]

\* SchemaGraphBuilder.__init__ (lines 59-60), with the module's flag
\* SECURITY_AVAILABLE (lines 18-27), fixed when the module is imported, kept
\* beside the builder's fields.
NewBuilder(security_available) ==
    [last_schema |-> None, last_relationships |-> None,
     SECURITY_AVAILABLE |-> security_available]

InitRest ==
    /\ schema = [tables |-> <<>>]
    /\ pc = "input"
    /\ result = NotCalled
    /\ graph = NoGraph
    /\ hash_seed = DefaultSeed
    /\ previous = NotCalled
    /\ heap = EmptySchemas
    /\ calls = [p \in Invocations |-> Idle]
    /\ files = {}
    /\ api = NoCall
    /\ args = NoNames
    /\ value = NotCalled
    /\ connector = NewConnector

Init == InitRest /\ self = NewBuilder(TRUE)

\* The optional security modules import (cryptography is installed) or do
\* not.
InitApi == InitRest /\ \E available \in BOOLEAN : self = NewBuilder(available)

\* tables.append({'name': table_name, 'columns': []}); table names are
\* unique within a schema.
AppendTable(names) ==
    /\ pc = "input"
    /\ \E nm \in names :
          /\ \A i \in 1..Len(schema.tables) : schema.tables[i].name # nm
          /\ schema' = [schema EXCEPT !.tables =
                            Append(@, [name |-> nm, columns |-> <<>>])]
    /\ UNCHANGED <<pc, result, graph, hash_seed, previous, heap, calls, self,
                   files, api, args, value, connector>>

\* columns.append({'name': ..., 'primary_key': ...}) on the table being
\* extracted; column names are unique within a table.
AppendColumn(names) ==
    /\ pc = "input"
    /\ Len(schema.tables) > 0
    /\ TotalColumns(schema.tables) < MaxColumns
    /\ \E nm \in names, flag \in BOOLEAN :
          LET n == Len(schema.tables)
              columns == schema.tables[n].columns
          IN  /\ \A i \in 1..Len(columns) : columns[i].name # nm
              /\ schema' = [schema EXCEPT !.tables[n].columns =
                                Append(@, [name |-> nm, primary_key |-> flag])]
    /\ UNCHANGED <<pc, result, graph, hash_seed, previous, heap, calls, self,
                   files, api, args, value, connector>>

AddTable == AppendTable(TableNames)

AddColumn == AppendColumn(ColumnNames)

\* relationships = infer_relationships(schema)
Infer ==
    /\ pc \in {"input", "malformed"}
    /\ result' = infer_relationships(schema)
    /\ pc' = IF IsRaise(result') THEN "raised" ELSE "returned"
    /\ UNCHANGED <<schema, graph, hash_seed, previous, heap, calls, self,
                   files, api, args, value, connector>>

\* The relationships are dumped to a YAML file and build_graph(schema,
\* relationships_file, ...) loads them from it (api.py lines 177-206 and
\* 329-341).
BuildGraph ==
    /\ pc = "returned"
    /\ graph = NoGraph
    /\ graph' = build_graph(schema, YamlRoundTrip(result.value))
    /\ UNCHANGED <<schema, pc, result, hash_seed, previous, heap, calls, self,
                   files, api, args, value, connector>>

\* A later call of infer_relationships on the same caller-held schema.
InferAgain ==
    /\ pc = "returned"
    /\ previous = NotCalled
    /\ previous' = result
    /\ result' = infer_relationships(schema)
    /\ UNCHANGED <<schema, pc, graph, hash_seed, heap, calls, self, files,
                   api, args, value, connector>>

\* The program is run again in a new interpreter, whose hash seed differs.
Rehash ==
    /\ pc = "returned"
    /\ previous = NotCalled
    /\ hash_seed' \in Seeds \ {hash_seed}
    /\ UNCHANGED <<schema, pc, result, graph, previous, heap, calls, self,
                   files, api, args, value, connector>>

\* d with d[k] = v
With(d, k, v) == [x \in DOMAIN d \cup {k} |-> IF x = k THEN v ELSE d[x]]

\* The same tables come from another database: the schema gets a `database`,
\* or a column a `type` or a `nullable`, that it did not have at the first
\* call.
ChangeField ==
    /\ pc = "returned"
    /\ previous = NotCalled
    /\ \/ /\ "database" \notin DOMAIN schema
          /\ schema' = With(schema, "database", "mysql_test")
       \/ \E t \in 1..Len(schema.tables) :
             \E c \in 1..Len(schema.tables[t].columns) :
                 \/ /\ "type" \notin DOMAIN schema.tables[t].columns[c]
                    /\ schema' = [schema EXCEPT !.tables[t].columns[c] =
                                      With(@, "type", "INT")]
                 \/ /\ "nullable" \notin DOMAIN schema.tables[t].columns[c]
                    /\ schema' = [schema EXCEPT !.tables[t].columns[c] =
                                      With(@, "nullable", TRUE)]
    /\ UNCHANGED <<pc, result, graph, hash_seed, previous, heap, calls, self,
                   files, api, args, value, connector>>

\* d without key k
Without(d, k) == [x \in DOMAIN d \ {k} |-> d[x]]

\* The caller passes a schema that lacks one key: `tables`, a table's `name`
\* or `columns`, or a column's `name` or `primary_key`.
DropKey ==
    /\ pc = "input"
    /\ \/ schema' = Without(schema, "tables")
       \/ \E t \in 1..Len(schema.tables), k \in {"name", "columns"} :
             schema' = [schema EXCEPT !.tables[t] = Without(@, k)]
       \/ \E t \in 1..Len(schema.tables) :
             \E c \in 1..Len(schema.tables[t].columns),
                k \in {"name", "primary_key"} :
                 schema' = [schema EXCEPT !.tables[t].columns[c] = Without(@, k)]
    /\ pc' = "malformed"
    /\ UNCHANGED <<result, graph, hash_seed, previous, heap, calls, self,
                   files, api, args, value, connector>>

\* Names the malformed schemas draw from: "As", "a_b" and "id", "a_id".
FewTableNames == { <<"A", "s">>, <<"a", "_", "b">> }

FewColumnNames == { <<"i", "d">>, <<"a", "_", "i", "d">> }

AddTableFew == AppendTable(FewTableNames)

AddColumnFew == AppendColumn(FewColumnNames)

(***************************************************************************)
(* Two invocations, step by step, over objects with identity               *)
(***************************************************************************)

\* The schema value held by the objects of invocation p's argument.
SchemaValue(h, p) ==
    LET tl == h[h[<<"schema", p>>].tables].items
    IN  [tables |->
            [t \in 1..Len(tl) |->
                LET cl == h[h[tl[t]].columns].items
                IN  [name |-> h[tl[t]].name,
                     columns |->
                         [c \in 1..Len(cl) |->
                             [name |-> h[cl[c]].name,
                              primary_key |-> h[cl[c]].primary_key]]]]]

\* The value of the relationships dict at address a.
ResultValue(h, a) ==
    [k \in 1..Len(h[a].items) |->
        LET rec == h[h[a].items[k][2]]
            fl == h[rec.foreign_keys].items
        IN  << h[a].items[k][1],
               [primary_key |-> rec.primary_key,
                foreign_keys |->
                    [j \in 1..Len(fl) |->
                        [column |-> h[fl[j]].column,
                         references |-> h[fl[j]].references,
                         confidence |-> h[fl[j]].confidence]]] >>]

\* The addresses an object holds.
Refs(obj) ==
    CASE obj.kind = "schema" -> { obj.tables }
      [] obj.kind = "table" -> { obj.columns }
      [] obj.kind = "list" -> { obj.items[k] : k \in 1..Len(obj.items) }
      [] obj.kind = "relationships" ->
             { obj.items[k][2] : k \in 1..Len(obj.items) }
      [] obj.kind = "record" -> { obj.foreign_keys }
      [] OTHER -> {}

\* The objects reachable from the addresses in S.
RECURSIVE ReachFrom(_, _)
ReachFrom(h, S) ==
    LET T == S \cup UNION { Refs(h[a]) : a \in S }
    IN  IF T = S THEN S ELSE ReachFrom(h, T)

Reach(h, a) == ReachFrom(h, {a})

\* Locals that live in one place for all invocations, as module globals do.
SharedFrame(p) == 1

\* Every invocation has a frame of its own for its locals.
Frame(p) == p

\* One list object serving as `foreign_keys` of every record.
DefaultList(f, i) == <<"foreign_keys", 0, 0>>

\* `[]` at line 46 makes a new list for the record of the i-th table.
NewList(f, i) == <<"foreign_keys", f, i>>

\* The column name the schemas of the two invocations draw from: "a_id".
CallColumnNames == { <<"a", "_", "i", "d">> }

\* The caller of invocation p appends a table to its schema. The second
\* schema is assembled after the first.
NewTable ==
    /\ \A q \in Invocations : calls[q].pc = "idle"
    /\ \E p \in Invocations, nm \in FewTableNames :
          LET n == Len(heap[<<"tables", p>>].items)
          IN  /\ p = 1 => heap[<<"tables", 2>>].items = <<>>
              /\ \A t \in 1..n : heap[<<"table", p, t>>].name # nm
              /\ heap' =
                     With(With([heap EXCEPT ![<<"tables", p>>].items =
                                    Append(@, <<"table", p, n + 1>>)],
                               <<"table", p, n + 1>>,
                               [kind |-> "table", name |-> nm,
                                columns |-> <<"columns", p, n + 1>>]),
                          <<"columns", p, n + 1>>,
                          [kind |-> "list", items |-> <<>>])
    /\ UNCHANGED <<schema, pc, result, graph, hash_seed, previous, calls,
                   self, files, api, args, value, connector>>

\* The caller of invocation p appends a column to the last table of its
\* schema; column names are unique within a table.
NewColumn ==
    /\ \A q \in Invocations : calls[q].pc = "idle"
    /\ \E p \in Invocations, nm \in CallColumnNames, flag \in BOOLEAN :
          LET n == Len(heap[<<"tables", p>>].items)
              c == Len(heap[<<"columns", p, n>>].items)
          IN  /\ n > 0
              /\ p = 1 => heap[<<"tables", 2>>].items = <<>>
              /\ \A k \in 1..c : heap[<<"column", p, n, k>>].name # nm
              /\ heap' =
                     With([heap EXCEPT ![<<"columns", p, n>>].items =
                               Append(@, <<"column", p, n, c + 1>>)],
                          <<"column", p, n, c + 1>>,
                          [kind |-> "column", name |-> nm,
                           primary_key |-> flag])
    /\ UNCHANGED <<schema, pc, result, graph, hash_seed, previous, calls,
                   self, files, api, args, value, connector>>

InProgress(q) == calls[q].pc \in {"loop1", "loop2"}

\* Lines 31-35: the call is entered, relationships = {} and
\* table_primary_keys = {} are created. The invocations are numbered in the
\* order they are entered.
Call(p) ==
    /\ calls[p].pc = "idle"
    /\ \A q \in Invocations : q < p => calls[q].pc # "idle"
    /\ heap' = With(With(heap, <<"relationships", Frame(p)>>,
                         [kind |-> "relationships", items |-> <<>>]),
                    <<"table_primary_keys", Frame(p)>>,
                    [kind |-> "table_primary_keys", items |-> <<>>])
    /\ calls' = [calls EXCEPT ![p] =
                     [@ EXCEPT !.pc = "loop1", !.i = 1,
                               !.given = SchemaValue(heap, p),
                               !.overlapped =
                                   \E q \in Invocations \ {p} : InProgress(q)]]
    /\ UNCHANGED <<schema, pc, result, graph, hash_seed, previous, self,
                   files, api, args, value, connector>>

\* Lines 36-39: one iteration of the first loop, or its end.
Loop1(p) ==
    /\ calls[p].pc = "loop1"
    /\ LET tables == SchemaValue(heap, p).tables
           i == calls[p].i
       IN  IF i > Len(tables)
           THEN /\ calls' = [calls EXCEPT ![p] = [@ EXCEPT !.pc = "loop2", !.i = 1]]
                /\ UNCHANGED heap
           ELSE /\ heap' = [heap EXCEPT
                               ![<<"table_primary_keys", Frame(p)>>].items =
                                   DictSet(@, tables[i].name,
                                           _find_primary_key(tables[i]).value)]
                /\ calls' = [calls EXCEPT ![p] = [@ EXCEPT !.i = i + 1]]
    /\ UNCHANGED <<schema, pc, result, graph, hash_seed, previous, self,
                   files, api, args, value, connector>>

\* The heap after foreign_keys.append(foreign_key) for each of fks, the
\* dicts being new objects.
RECURSIVE AppendForeignKeys(_, _, _, _, _, _)
AppendForeignKeys(h, list, f, i, fks, k) ==
    IF k > Len(fks) THEN h
    ELSE AppendForeignKeys(
             With([h EXCEPT ![list].items = Append(@, <<"fk", f, i, k>>)],
                  <<"fk", f, i, k>>,
                  [kind |-> "fk", column |-> fks[k].column,
                   references |-> fks[k].references,
                   confidence |-> fks[k].confidence]),
             list, f, i, fks, k + 1)

\* Lines 42-72: one iteration of the second loop (the record of a table and
\* the scan of its columns), or return relationships.
Loop2(p) ==
    /\ calls[p].pc = "loop2"
    /\ LET tables == SchemaValue(heap, p).tables
           i == calls[p].i
           f == Frame(p)
       IN  IF i > Len(tables)
           THEN /\ calls' = [calls EXCEPT ![p] = [@ EXCEPT !.pc = "done"]]
                /\ UNCHANGED heap
           ELSE LET table_primary_keys ==
                        heap[<<"table_primary_keys", f>>].items
                    fks == ScanColumns(tables[i].name, tables[i].columns,
                                       table_primary_keys, 1, <<>>).value
                    list == NewList(f, i)
                    withList == With(heap, list,
                                     [kind |-> "list", items |-> <<>>])
                    withRecord ==
                        With(withList, <<"record", f, i>>,
                             [kind |-> "record",
                              primary_key |->
                                  Lookup(table_primary_keys, tables[i].name),
                              foreign_keys |-> list])
                    withEntry ==
                        [withRecord EXCEPT
                            ![<<"relationships", f>>].items =
                                DictSet(@, tables[i].name, <<"record", f, i>>)]
                IN  /\ heap' = AppendForeignKeys(withEntry, list, f, i, fks, 1)
                    /\ calls' = [calls EXCEPT ![p] = [@ EXCEPT !.i = i + 1]]
    /\ UNCHANGED <<schema, pc, result, graph, hash_seed, previous, self,
                   files, api, args, value, connector>>

\* What a caller can do to an object it was handed: clear a dict or list,
\* overwrite a value.
Scribble(obj) ==
    CASE obj.kind \in {"list", "relationships"} -> [obj EXCEPT !.items = <<>>]
      [] obj.kind = "record" -> [obj EXCEPT !.primary_key = <<"x">>]
      [] obj.kind = "fk" -> [obj EXCEPT !.column = <<"x">>]
      [] OTHER -> obj

\* The address of the mapping invocation p returned (line 72).
ResultOf(p) == <<"relationships", Frame(p)>>

\* The caller mutates everything it can reach from the result of p, the
\* first result to be mutated.
Mutate(p) ==
    /\ calls[p].pc = "done"
    /\ \A q \in Invocations : ~calls[q].mutated
    /\ heap' = [a \in DOMAIN heap |->
                   IF a \in Reach(heap, ResultOf(p)) THEN Scribble(heap[a])
                   ELSE heap[a]]
    /\ calls' = [calls EXCEPT ![p] = [@ EXCEPT !.mutated = TRUE]]
    /\ UNCHANGED <<schema, pc, result, graph, hash_seed, previous, self,
                   files, api, args, value, connector>>

Enter == \E p \in Invocations : Call(p)

FirstLoop == \E p \in Invocations : Loop1(p)

SecondLoop == \E p \in Invocations : Loop2(p)

MutateResult == \E p \in Invocations : Mutate(p)

NextCalls ==
    NewTable \/ NewColumn \/ Enter \/ FirstLoop \/ SecondLoop \/ MutateResult

SpecCalls == Init /\ [][NextCalls]_vars

(***************************************************************************)
(* src/schema_graph_builder/api.py: SchemaGraphBuilder                     *)
(***************************************************************************)

\* str.replace(old, new)
RECURSIVE Replace(_, _, _)
Replace(s, old, new) ==
    IF Len(s) < Len(old) \/ old = <<>> THEN s
    ELSE IF SubSeq(s, 1, Len(old)) = old
         THEN new \o Replace(SubSeq(s, Len(old) + 1, Len(s)), old, new)
         ELSE << Head(s) >> \o Replace(Tail(s), old, new)

DotHtml == <<".", "h", "t", "m", "l">>

DotJson == <<".", "j", "s", "o", "n">>

\* Output paths the callers pass: "g.html" and the default
\* "schema_graph.html".
OutputPaths ==
    { <<"g", ".", "h", "t", "m", "l">>,
      <<"s", "c", "h", "e", "m", "a", "_", "g", "r", "a", "p", "h", ".", "h", "t", "m", "l">> }

\* Lines 51-60 of graph_builder.py: the name of the HTML file build_graph
\* writes when asked to visualize.
HtmlFilename(output_json_path) ==
    IF IsSubstring(<<"p", "o", "s", "t", "g", "r", "e", "s">>, output_json_path)
    THEN <<"p", "o", "s", "t", "g", "r", "e", "s", "_", "s", "c", "h", "e", "m", "a", "_", "g", "r", "a", "p", "h", ".", "h", "t", "m", "l">>
    ELSE IF IsSubstring(<<"m", "y", "s", "q", "l">>, output_json_path)
    THEN <<"m", "y", "s", "q", "l", "_", "s", "c", "h", "e", "m", "a", "_", "g", "r", "a", "p", "h", ".", "h", "t", "m", "l">>
    ELSE IF IsSubstring(<<"m", "s", "s", "q", "l">>, output_json_path)
    THEN <<"m", "s", "s", "q", "l", "_", "s", "c", "h", "e", "m", "a", "_", "g", "r", "a", "p", "h", ".", "h", "t", "m", "l">>
    ELSE <<"s", "c", "h", "e", "m", "a", "_", "g", "r", "a", "p", "h", ".", "h", "t", "m", "l">>

\* ValueError(message)
ValueError(message) ==
    [kind |-> "raise", error |-> "ValueError", message |-> message]

NoSchemaMessage == "No schema provided and no previous schema available"

NoRelationshipsMessage ==
    "No relationships provided and no previous relationships available"

\* Schemas the extraction layer or a caller hands to the builder: no tables;
\* As(a_id) and a_b(a_id primary key); a table without `columns`; no `tables`.
ApiSchemas ==
    { [tables |-> <<>>],
      [tables |->
          << [name |-> <<"A", "s">>,
              columns |-> << [name |-> <<"a", "_", "i", "d">>, primary_key |-> FALSE] >>],
             [name |-> <<"a", "_", "b">>,
              columns |-> << [name |-> <<"a", "_", "i", "d">>, primary_key |-> TRUE] >>] >>],
      [tables |-> << [name |-> <<"A", "s">>] >>],
      [database |-> "db"] }

\* infer_relationships on each of these schemas.
Inferred == [s \in ApiSchemas |-> infer_relationships(s)]

\* Relationships a caller holds: what inference returned for one of the
\* schemas.
ApiRelationships ==
    { Some(Inferred[s].value) : s \in { x \in ApiSchemas : ~IsRaise(Inferred[x]) } }

\* Whether build_graph raises KeyError on schema s (lines 31-35 of
\* graph_builder.py: schema['tables'], table['name'], table['columns']).
BuildGraphRaises(s) ==
    \/ "tables" \notin DOMAIN s
    \/ \E t \in 1..Len(s["tables"]) :
          {"name", "columns"} \ DOMAIN s["tables"][t] # {}

\* The key of that KeyError: of the first table that lacks one, `name`
\* (line 32) before `columns` (line 34).
MissingGraphKey(s) ==
    IF "tables" \notin DOMAIN s THEN "tables"
    ELSE LET t == CHOOSE x \in 1..Len(s["tables"]) :
                      /\ {"name", "columns"} \ DOMAIN s["tables"][x] # {}
                      /\ \A y \in 1..(x - 1) :
                            {"name", "columns"} \subseteq DOMAIN s["tables"][y]
         IN  IF "name" \notin DOMAIN s["tables"][t] THEN "name" ELSE "columns"

\* Lines 230-266. extract_schema is the extraction layer: it returns a schema
\* or raises.
extract_schema_only(me, extracted) ==
    IF IsRaise(extracted) THEN [self |-> me, outcome |-> extracted]
    ELSE [self |-> [me EXCEPT !.last_schema = extracted.value],
          outcome |-> extracted]

\* Lines 268-293.
infer_relationships_only(me, schema_arg) ==
    IF schema_arg = None /\ me.last_schema = None
    THEN [self |-> me, outcome |-> ValueError(NoSchemaMessage)]
    ELSE LET s == IF schema_arg = None THEN me.last_schema ELSE schema_arg
             relationships == Inferred[s]
         IN  IF IsRaise(relationships)
             THEN [self |-> me, outcome |-> relationships]
             ELSE [self |-> [me EXCEPT !.last_relationships =
                                          Some(relationships.value)],
                   outcome |-> relationships]

\* Temporary files the program may leave behind at once.
MaxTempFiles == 1

DotYaml == <<".", "y", "a", "m", "l">>

\* Names tempfile gives to files with suffix '.yaml'.
TempName(k) == <<"t", "m", "p">> \o [i \in 1..k |-> "x"] \o DotYaml

TempNames == { TempName(k) : k \in 1..(MaxTempFiles + 1) }

\* tempfile.mkstemp / NamedTemporaryFile: a name no existing file has.
mkstemp(fs) ==
    TempName(CHOOSE k \in 1..(MaxTempFiles + 1) :
                 /\ TempName(k) \notin fs
                 /\ \A j \in 1..(k - 1) : TempName(j) \in fs)

OSError == [kind |-> "raise", error |-> "OSError"]

\* create_visualization taking an empty mapping when it has no
\* relationships.
LenientVisualization(me, fs, schema_arg, relationships_arg, output_path, write_raises) ==
    IF schema_arg = None /\ me.last_schema = None
    THEN [files |-> fs, outcome |-> ValueError(NoSchemaMessage),
          temp_files |-> {}]
    ELSE LET s == IF schema_arg = None THEN me.last_schema ELSE schema_arg
             json_path == Replace(output_path, DotHtml, DotJson)
             tmp_path == mkstemp(fs)
         IN  IF write_raises
             THEN [files |-> IF me.SECURITY_AVAILABLE THEN fs
                             ELSE fs \cup {tmp_path},
                   outcome |-> OSError, temp_files |-> {tmp_path}]
             ELSE IF BuildGraphRaises(s)
             THEN [files |-> fs, outcome |-> Raise(MissingGraphKey(s)),
                   temp_files |-> {tmp_path}]
             ELSE [files |-> fs \cup {json_path, HtmlFilename(json_path)},
                   outcome |-> Return(output_path),
                   temp_files |-> {tmp_path}]

\* Lines 295-365: the checks (315-323), then the temporary YAML file. With
\* SECURITY_AVAILABLE, create_secure_temp_file makes it and unlinks it when
\* writing raises (security.py lines 434-453); without, NamedTemporaryFile
\* (delete=False) makes it and yaml.dump writes into it before the `try`
\* (lines 352-354), so an error of the write leaves it in place. Then
\* build_graph with visualize=True (the JSON and the HTML file) and, in the
\* `finally`, the removal of the temporary file. The files that exist
\* afterwards, the outcome and the temporary files the call created.
create_visualization(me, fs, schema_arg, relationships_arg, output_path, write_raises) ==
    IF schema_arg = None /\ me.last_schema = None
    THEN [files |-> fs, outcome |-> ValueError(NoSchemaMessage),
          temp_files |-> {}]
    ELSE IF relationships_arg = None /\ me.last_relationships = None
    THEN [files |-> fs, outcome |-> ValueError(NoRelationshipsMessage),
          temp_files |-> {}]
    ELSE LET s == IF schema_arg = None THEN me.last_schema ELSE schema_arg
             json_path == Replace(output_path, DotHtml, DotJson)
             tmp_path == mkstemp(fs)
         IN  IF write_raises
             THEN [files |-> IF me.SECURITY_AVAILABLE THEN fs
                             ELSE fs \cup {tmp_path},
                   outcome |-> OSError, temp_files |-> {tmp_path}]
             ELSE IF BuildGraphRaises(s)
             THEN [files |-> fs, outcome |-> Raise(MissingGraphKey(s)),
                   temp_files |-> {tmp_path}]
             ELSE [files |-> fs \cup {json_path, HtmlFilename(json_path)},
                   outcome |-> Return(output_path),
                   temp_files |-> {tmp_path}]

\* Database types callers pass: none, "mysql" and "oracle".
DbTypes == { <<>>, <<"m", "y", "s", "q", "l">>, <<"o", "r", "a", "c", "l", "e">> }

\* output_dir, left at its default "output".
OutputDir == <<"o", "u", "t", "p", "u", "t">>

\* os.path.join(directory, name)
PathJoin(directory, name) == directory \o <<"/">> \o name

InferredRelationshipsYaml ==
    <<"_", "i", "n", "f", "e", "r", "r", "e", "d", "_", "r", "e", "l", "a", "t", "i", "o", "n", "s", "h", "i", "p", "s", ".", "y", "a", "m", "l">>

SchemaGraphJson == <<"_", "s", "c", "h", "e", "m", "a", "_", "g", "r", "a", "p", "h", ".", "j", "s", "o", "n">>

SchemaGraphHtml == <<"_", "s", "c", "h", "e", "m", "a", "_", "g", "r", "a", "p", "h", ".", "h", "t", "m", "l">>

FileNotFoundError == [kind |-> "raise", error |-> "FileNotFoundError"]

ConnectionError == [kind |-> "raise", error |-> "ConnectionError"]

\* Lines 158-224: analyze_database once extract_schema has returned schema s,
\* `relationships` being the outcome of infer_relationships(s) (line 163).
\* self.last_schema = schema (158); self.last_relationships = relationships
\* (164); with save_files, the relationships YAML (175-201: through a
\* temporary file that is removed, or directly), build_graph (206: the JSON
\* and, with visualize, the HTML file it names) and the paths reported (203,
\* 207, 211-212). io_fault is the step at which the file system refuses a
\* write: "save" for makedirs or the YAML file, "graph" for the JSON file.
AnalysisPipeline(me, fs, db_type, s, relationships, save_files, visualize, io_fault) ==
    LET with_schema == [me EXCEPT !.last_schema = s]
        with_both == [me EXCEPT !.last_schema = s,
                                !.last_relationships = Some(relationships.value)]
        relationships_file ==
            PathJoin(OutputDir, db_type \o InferredRelationshipsYaml)
        json_file == PathJoin(OutputDir, db_type \o SchemaGraphJson)
        html_file == db_type \o SchemaGraphHtml
        Analysis(output_files) ==
            [schema |-> s, relationships |-> relationships.value,
             output_files |-> output_files]
    IN
    IF IsRaise(relationships)
    THEN [self |-> with_schema, files |-> fs, outcome |-> relationships]
    ELSE IF ~save_files
    THEN [self |-> with_both, files |-> fs, outcome |-> Return(Analysis(<<>>))]
    ELSE IF io_fault = "save"
    THEN [self |-> with_both, files |-> fs, outcome |-> OSError]
    ELSE IF io_fault = "graph"
    THEN [self |-> with_both, files |-> fs \cup {relationships_file},
          outcome |-> OSError]
    ELSE IF BuildGraphRaises(s)
    THEN [self |-> with_both, files |-> fs \cup {relationships_file},
          outcome |-> Raise(MissingGraphKey(s))]
    ELSE IF visualize
    THEN [self |-> with_both,
          files |-> fs \cup {relationships_file, json_file,
                             HtmlFilename(json_file)},
          outcome |-> Return(Analysis(
                         [relationships_yaml |-> relationships_file,
                          graph_json |-> json_file,
                          visualization_html |-> html_file]))]
    ELSE [self |-> with_both,
          files |-> fs \cup {relationships_file, json_file},
          outcome |-> Return(Analysis(
                         [relationships_yaml |-> relationships_file,
                          graph_json |-> json_file]))]

\* Lines 72-228: the validation of the arguments (106-114), extract_schema
\* (157), then the rest of the pipeline; `except Exception: raise` (226-228).
analyze_database(me, fs, db_type, config_exists, extracted, save_files, visualize, io_fault) ==
    IF db_type = <<>>
    THEN [self |-> me, files |-> fs,
          outcome |-> ValueError("Database type must be a non-empty string")]
    ELSE IF ~config_exists
    THEN [self |-> me, files |-> fs, outcome |-> FileNotFoundError]
    ELSE IF IsRaise(extracted)
    THEN [self |-> me, files |-> fs, outcome |-> extracted]
    ELSE AnalysisPipeline(me, fs, db_type, extracted.value,
                          Inferred[extracted.value], save_files, visualize,
                          io_fault)

Before == [self |-> self, files |-> files]

\* builder.extract_schema_only(db_type, config_path)
ExtractSchemaOnly ==
    /\ \E extracted \in { Return(s) : s \in ApiSchemas } \cup {ConnectionError} :
          LET r == extract_schema_only(self, extracted)
          IN  /\ self' = r.self
              /\ api' = [method |-> "extract_schema_only", before |-> Before,
                         outcome |-> r.outcome]
    /\ UNCHANGED <<schema, pc, result, graph, hash_seed, previous, heap,
                   calls, files, args, value, connector>>

\* builder.infer_relationships_only() or
\* builder.infer_relationships_only(schema)
InferRelationshipsOnly ==
    /\ \E schema_arg \in ApiSchemas \cup {None} :
          LET r == infer_relationships_only(self, schema_arg)
          IN  /\ self' = r.self
              /\ api' = [method |-> "infer_relationships_only",
                         schema |-> schema_arg, before |-> Before,
                         outcome |-> r.outcome]
    /\ UNCHANGED <<schema, pc, result, graph, hash_seed, previous, heap,
                   calls, files, args, value, connector>>

\* builder.create_visualization(schema, relationships, output_path), each
\* argument given or left out; a caller passes relationships it got from
\* inference.
CreateVisualization ==
    /\ Cardinality(files \cap TempNames) < MaxTempFiles
    /\ \E schema_arg \in ApiSchemas \cup {None},
          relationships_arg \in ApiRelationships \cup {None},
          output_path \in OutputPaths, write_raises \in BOOLEAN :
          LET r == create_visualization(self, files, schema_arg,
                                        relationships_arg, output_path,
                                        write_raises)
          IN  /\ files' = r.files
              /\ api' = [method |-> "create_visualization",
                         schema |-> schema_arg,
                         relationships |-> relationships_arg,
                         output_path |-> output_path, before |-> Before,
                         outcome |-> r.outcome,
                         temp_files |-> r.temp_files]
    /\ UNCHANGED <<schema, pc, result, graph, hash_seed, previous, heap,
                   calls, self, args, value, connector>>

\* builder.analyze_database(db_type, config_path, output_dir, visualize,
\* save_files). An input is drawn only where the call reads it: the
\* extraction when the arguments are accepted, save_files when extraction
\* returns, the file system with save_files, visualize when the files are
\* written.
AnalyzeDatabase ==
    /\ \E db_type \in DbTypes, config_exists \in BOOLEAN :
        \E extracted \in IF db_type = <<>> \/ ~config_exists
                          THEN {ConnectionError}
                          ELSE { Return(s) : s \in ApiSchemas }
                                   \cup {ConnectionError} :
        \E save_files \in IF IsRaise(extracted) THEN {FALSE} ELSE BOOLEAN :
        \E io_fault \in IF save_files THEN {"none", "save", "graph"}
                         ELSE {"none"} :
        \E visualize \in IF save_files /\ io_fault = "none" THEN BOOLEAN
                          ELSE {TRUE} :
             LET r == analyze_database(self, files, db_type, config_exists,
                                       extracted, save_files, visualize,
                                       io_fault)
             IN  /\ self' = r.self
                 /\ files' = r.files
                 /\ api' = [method |-> "analyze_database",
                            before |-> Before, outcome |-> r.outcome]
    /\ UNCHANGED <<schema, pc, result, graph, hash_seed, previous, heap,
                   calls, args, value, connector>>

NextApi == ExtractSchemaOnly \/ InferRelationshipsOnly \/ CreateVisualization

SpecApi == InitApi /\ [][NextApi]_vars

\* The calls that set last_schema and last_relationships.
NextAnalyze == AnalyzeDatabase \/ ExtractSchemaOnly \/ InferRelationshipsOnly

SpecAnalyze == InitApi /\ [][NextAnalyze]_vars

(***************************************************************************)
(* The helpers of the inference module called on names of any spelling     *)
(***************************************************************************)

\* Total number of characters of the three names.
MaxNameLen == 4

\* The characters the names are written with.
NameAlphabet == {"a", "s", "_", "i", "d", "D"}

\* A caller writes one more character of one of the names.
TypeName ==
    /\ value = NotCalled
    /\ Len(args.column_name) + Len(args.ref_pk) + Len(args.ref_table_name)
           < MaxNameLen
    /\ \E field \in {"column_name", "ref_pk", "ref_table_name"},
          ch \in NameAlphabet :
          args' = [args EXCEPT ![field] = Append(@, ch)]
    /\ UNCHANGED <<schema, pc, result, graph, hash_seed, previous, heap, calls,
                   self, files, api, connector, value>>

\* _extract_base_name(column_name)
ExtractBaseName ==
    /\ value = NotCalled
    /\ value' = [fn |-> "_extract_base_name",
                 out |-> _extract_base_name(args.column_name)]
    /\ UNCHANGED <<schema, pc, result, graph, hash_seed, previous, heap, calls,
                   self, files, api, connector, args>>

\* _get_table_name_variants(ref_table_name)
TableNameVariants ==
    /\ value = NotCalled
    /\ value' = [fn |-> "_get_table_name_variants",
                 out |-> _get_table_name_variants(args.ref_table_name)]
    /\ UNCHANGED <<schema, pc, result, graph, hash_seed, previous, heap, calls,
                   self, files, api, connector, args>>

\* _is_foreign_key_match(column_name, ref_pk, ref_table_name)
IsForeignKeyMatch ==
    /\ value = NotCalled
    /\ value' = [fn |-> "_is_foreign_key_match",
                 out |-> _is_foreign_key_match(args.column_name, args.ref_pk,
                                               args.ref_table_name)]
    /\ UNCHANGED <<schema, pc, result, graph, hash_seed, previous, heap, calls,
                   self, files, api, connector, args>>

NextNames == TypeName \/ ExtractBaseName \/ TableNameVariants \/ IsForeignKeyMatch

SpecNames == Init /\ [][NextNames]_vars

(***************************************************************************)
(* DatabaseConnector.extract_schema (connectors/base_connector.py)         *)
(*                                                                         *)
(* connector.pc is the statement the call is at; connector.error is the    *)
(* exception in flight; connector.failed is the step that raised it.       *)
(* Engines are numbered in the order create_engine returns them;           *)
(* connector.disposed holds those whose dispose() has been called and      *)
(* connector.dispose_raised those whose dispose() raised.                  *)
(***************************************************************************)

\* Calls of extract_schema made on one connector.
MaxExtractions == 3

Engine(id) == [kind |-> "Engine", id |-> id]

ConnectorError(step) == [kind |-> "raise", error |-> step]

\* A statement of the try block: it completes, or it raises.
TryStatement(here, next) ==
    /\ connector.pc = here
    /\ \/ connector' = [connector EXCEPT !.pc = next]
       \/ connector' = [connector EXCEPT !.pc = "except",
                                         !.error = ConnectorError(here),
                                         !.failed = ConnectorError(here)]
    /\ UNCHANGED <<schema, pc, result, graph, hash_seed, previous, heap,
                   calls, self, files, api, args, value>>

\* extract_schema is entered.
ExtractSchema ==
    /\ connector.pc = "idle"
    /\ Len(connector.outcomes) < MaxExtractions
    /\ connector' = [connector EXCEPT !.pc = "_load_config",
                                      !.error = None, !.failed = None]
    /\ UNCHANGED <<schema, pc, result, graph, hash_seed, previous, heap,
                   calls, self, files, api, args, value>>

\* config = self._load_config(config_path)
LoadConfig == TryStatement("_load_config", "get_credentials")

\* username, password = CredentialManager.get_credentials(config)
GetCredentials == TryStatement("get_credentials", "_get_connection_params")

\* connection_params = self._get_connection_params(config)
GetConnectionParams ==
    TryStatement("_get_connection_params", "_create_connection")

\* self._create_connection(...): self.engine = create_engine(...), or the
\* connection string or create_engine raises and nothing is assigned.
CreateConnection ==
    /\ connector.pc = "_create_connection"
    /\ \/ connector' = [connector EXCEPT
                           !.pc = "_extract_schema_data",
                           !.engine = Engine(connector.created + 1),
                           !.created = @ + 1]
       \/ connector' = [connector EXCEPT
                           !.pc = "except",
                           !.error = ConnectorError("_create_connection"),
                           !.failed = ConnectorError("_create_connection")]
    /\ UNCHANGED <<schema, pc, result, graph, hash_seed, previous, heap,
                   calls, self, files, api, args, value>>

\* schema = self._extract_schema_data(...); the logging; return schema.
ExtractSchemaData == TryStatement("_extract_schema_data", "finally")

\* except Exception as e: log_connection_failure(...); raise
ReRaise ==
    /\ connector.pc = "except"
    /\ connector' = [connector EXCEPT !.pc = "finally"]
    /\ UNCHANGED <<schema, pc, result, graph, hash_seed, previous, heap,
                   calls, self, files, api, args, value>>

\* _cleanup_connection without its try/except/finally: an error of dispose
\* leaves the engine in place and replaces the exception in flight.
CleanupPropagates(conn, dispose_raises) ==
    IF conn.engine = None THEN conn
    ELSE IF dispose_raises
         THEN [conn EXCEPT !.disposed = @ \cup {conn.engine.id},
                           !.dispose_raised = @ \cup {conn.engine.id},
                           !.error = ConnectorError("dispose")]
         ELSE [conn EXCEPT !.disposed = @ \cup {conn.engine.id},
                           !.engine = None]

\* if self.engine: try: self.engine.dispose() except Exception: (logged)
\* finally: self.engine = None
_cleanup_connection(conn, dispose_raises) ==
    IF conn.engine = None THEN conn
    ELSE [conn EXCEPT !.disposed = @ \cup {conn.engine.id},
                      !.dispose_raised = IF dispose_raises
                                         THEN @ \cup {conn.engine.id} ELSE @,
                      !.engine = None]

\* finally: self._cleanup_connection(); then the call returns the schema or
\* the exception in flight reaches the caller.
CleanupConnection ==
    /\ connector.pc = "finally"
    /\ \E dispose_raises \in BOOLEAN :
         LET conn == _cleanup_connection(connector, dispose_raises)
         IN  connector' =
                 [conn EXCEPT !.pc = "idle",
                              !.outcomes =
                                  Append(@, IF conn.error = None
                                            THEN Return("schema")
                                            ELSE conn.error)]
    /\ UNCHANGED <<schema, pc, result, graph, hash_seed, previous, heap,
                   calls, self, files, api, args, value>>

NextConnector ==
    \/ ExtractSchema \/ LoadConfig \/ GetCredentials \/ GetConnectionParams
    \/ CreateConnection \/ ExtractSchemaData \/ ReRaise \/ CleanupConnection

SpecConnector == Init /\ [][NextConnector]_vars

Next == AddTable \/ AddColumn \/ Infer

Spec == Init /\ [][Next]_vars

\* Inference followed by graph building.
NextGraph == AddTable \/ AddColumn \/ Infer \/ BuildGraph

SpecGraph == Init /\ [][NextGraph]_vars

\* Two runs of the program on one schema.
NextRehash == AddTableFew \/ AddColumnFew \/ Infer \/ Rehash \/ InferAgain

SpecRehash == Init /\ [][NextRehash]_vars

\* Two calls on schemas that differ in the fields inference does not read.
NextFields == AddTableFew \/ AddColumnFew \/ Infer \/ ChangeField \/ InferAgain

SpecFields == Init /\ [][NextFields]_vars

\* Calls with a schema that may lack one key.
NextMalformed == AddTableFew \/ AddColumnFew \/ DropKey \/ Infer

SpecMalformed == Init /\ [][NextMalformed]_vars

TypeOK ==
    /\ pc \in {"input", "malformed", "returned", "raised"}
    /\ (pc \in {"input", "malformed"}) = (result = NotCalled)

(***************************************************************************)
(* Vocabulary of the claims                                                *)
(***************************************************************************)

Called == pc \in {"returned", "raised"}

Returned == pc = "returned"

Tables == DictGet(schema, "tables", <<>>)

TableIndices == 1..Len(Tables)

\* The output record of the table at position t of schema.tables.
RecordOf(t) == Lookup(result.value, Tables[t]["name"])

ForeignKeysOf(t) == RecordOf(t).foreign_keys

\* Positions of the columns of table t whose primary-key flag is set.
Flagged(t) ==
    { c \in 1..Len(Tables[t]["columns"]) : Tables[t]["columns"][c]["primary_key"] }

Unflagged(t) == (1..Len(Tables[t]["columns"])) \ Flagged(t)

\* The first flagged column's name, or None: section 4.1 of the specification.
FirstFlaggedName(t) ==
    IF Flagged(t) = {} THEN Null
    ELSE Tables[t]["columns"][CHOOSE c \in Flagged(t) :
                                  \A d \in Flagged(t) : c <= d]["name"]

\* The tables column `name` of table t may reference: every other table that
\* has a primary key and whose primary key and name match the column's name.
Eligible(t, name) ==
    { r \in TableIndices :
        /\ r # t
        /\ FirstFlaggedName(r) # Null
        /\ _is_foreign_key_match(name, FirstFlaggedName(r), Tables[r]["name"]) }

FirstEligible(t, name) ==
    CHOOSE r \in Eligible(t, name) : \A q \in Eligible(t, name) : r <= q

ReferenceTo(r) == FormatReference(Tables[r]["name"], FirstFlaggedName(r))

\* The entries of table t's foreign_keys whose column is `name`.
EntriesFor(t, name) ==
    { k \in 1..Len(ForeignKeysOf(t)) : ForeignKeysOf(t)[k].column = name }

\* Section 4.4 of the specification, tiers 1 to 3.
Tier(column_name, ref_pk, ref_table_name) ==
    LET column_base == _extract_base_name(Lower(column_name))
        ref_base == _extract_base_name(Lower(ref_pk))
    IN  IF Lower(column_name) = Lower(ref_pk) THEN 100
        ELSE IF column_base = ref_base /\ column_base # <<>> THEN 95
        ELSE 90

(***************************************************************************)
(* Claims                                                                  *)
(***************************************************************************)

\* C1: for every schema the call returns, and the key set of the mapping it
\* returns is exactly the set of table names of schema.tables, one key per
\* table; a schema with zero tables yields the empty mapping.
C1_KeySetIsTableNames ==
    Called =>
        /\ Returned
        /\ Keys(result.value) = { Tables[t]["name"] : t \in TableIndices }
        /\ Len(result.value) = Len(Tables)
        /\ (Tables = <<>> => result.value = <<>>)

\* C1 witness: a schema of three tables, one of them without columns, has
\* been inferred.
C1_Witness ==
    /\ Returned
    /\ Len(Tables) = 3
    /\ \E t \in TableIndices : Tables[t]["columns"] = <<>>
    /\ Cardinality(Keys(result.value)) = 3

\* C2: the primary_key of every table's record is the name of the first
\* column of the table, in declared order, whose primary-key flag is true,
\* and None when no column is flagged.
C2_PrimaryKeyIsFirstFlagged ==
    Returned =>
        \A t \in TableIndices : RecordOf(t).primary_key = FirstFlaggedName(t)

\* C2 witness: a table with two flagged columns has been inferred.
C2_Witness ==
    /\ Returned
    /\ \E t \in TableIndices :
          /\ Cardinality(Flagged(t)) >= 2
          /\ RecordOf(t).primary_key = Tables[t]["columns"][1]["name"]

C4_ConfidenceIsMatchTier ==
    Returned =>
        \A t \in TableIndices : \A k \in 1..Len(ForeignKeysOf(t)) :
            \A r \in TableIndices \ {t} :
                LET fk == ForeignKeysOf(t)[k]
                    pk == FirstFlaggedName(r)
                    ref_table_name == Tables[r]["name"]
                IN  (pk # Null /\ fk.references = ReferenceTo(r)) =>
                        /\ fk.confidence = Tier(fk.column, pk, ref_table_name)
                        /\ fk.confidence = 90 =>
                               _extract_base_name(Lower(fk.column))
                                   \in VariantSet(Lower(ref_table_name))

\* C4 witness: a foreign key of the base-name tier whose column's base name
\* is also a variant of the referenced table's name.
C4_Witness ==
    /\ Returned
    /\ \E t \in TableIndices : \E k \in 1..Len(ForeignKeysOf(t)) :
          \E r \in TableIndices \ {t} :
              /\ FirstFlaggedName(r) # Null
              /\ ForeignKeysOf(t)[k].references = ReferenceTo(r)
              /\ ForeignKeysOf(t)[k].confidence = 95
              /\ _extract_base_name(Lower(ForeignKeysOf(t)[k].column))
                     \in VariantSet(Lower(Tables[r]["name"]))

\* C5: no foreign key of a table T names T in its `references`: it is
\* never "<T>.<column of T>".
C5_NoSelfReference ==
    Returned =>
        \A t \in TableIndices : \A k \in 1..Len(ForeignKeysOf(t)) :
            \A c \in 1..Len(Tables[t]["columns"]) :
                ForeignKeysOf(t)[k].references #
                    FormatReference(Tables[t]["name"],
                                    Tables[t]["columns"][c]["name"])

\* C5 witness: a table with an unflagged column that matches the table's
\* own primary key has been inferred.
C5_Witness ==
    /\ Returned
    /\ \E t \in TableIndices : \E c \in Unflagged(t) :
          /\ FirstFlaggedName(t) # Null
          /\ _is_foreign_key_match(Tables[t]["columns"][c]["name"],
                                   FirstFlaggedName(t), Tables[t]["name"])

\* C6: no entry of a table's foreign_keys has `column` equal to the table's
\* own primary_key.
C6_PrimaryKeyNotForeignKey ==
    Returned =>
        \A t \in TableIndices : \A k \in 1..Len(ForeignKeysOf(t)) :
            ForeignKeysOf(t)[k].column # RecordOf(t).primary_key

\* C6 witness: a table whose primary key matches another table's primary
\* key has been inferred.
C6_Witness ==
    /\ Returned
    /\ \E t \in TableIndices :
          /\ FirstFlaggedName(t) # Null
          /\ Eligible(t, FirstFlaggedName(t)) # {}

\* C7: every column entry of a table contributes zero or one foreign key,
\* so a table has no more foreign keys than unflagged columns.
C7_AtMostOnePerColumn ==
    Returned =>
        \A t \in TableIndices :
            /\ Len(ForeignKeysOf(t)) <= Cardinality(Unflagged(t))
            /\ \A c \in 1..Len(Tables[t]["columns"]) :
                  Cardinality(EntriesFor(t, Tables[t]["columns"][c]["name"])) <= 1

\* C7 witness: a column with two eligible tables has been inferred.
C7_Witness ==
    /\ Returned
    /\ \E t \in TableIndices : \E c \in Unflagged(t) :
          /\ Cardinality(Eligible(t, Tables[t]["columns"][c]["name"])) >= 2
          /\ Cardinality(EntriesFor(t, Tables[t]["columns"][c]["name"])) = 1

\* C8 as claimed: a table with no flagged column yields the record
\* {primary_key: None, foreign_keys: []}, whatever the other tables are.
C8_NoPrimaryKeyNoForeignKeys ==
    Returned =>
        \A t \in TableIndices :
            Flagged(t) = {} =>
                RecordOf(t) = [primary_key |-> Null, foreign_keys |-> <<>>]

\* C8 as amended: a table with no flagged column yields primary_key None
\* without raising, and its foreign_keys is empty exactly when none of its
\* columns matches the primary key of another table.
C8_NoPrimaryKeyRecord ==
    Called =>
        /\ Returned
        /\ \A t \in TableIndices :
              Flagged(t) = {} =>
                  /\ RecordOf(t).primary_key = Null
                  /\ (ForeignKeysOf(t) = <<>>) =
                         (\A c \in 1..Len(Tables[t]["columns"]) :
                              Eligible(t, Tables[t]["columns"][c]["name"]) = {})

\* C8 witness: a table without primary key got a foreign key.
C8_Witness ==
    /\ Returned
    /\ \E t \in TableIndices :
          /\ Flagged(t) = {}
          /\ RecordOf(t).primary_key = Null
          /\ ForeignKeysOf(t) # <<>>

\* C9 as claimed: a call on an input without the `tables` field raises.
C9_MissingTablesRaises ==
    (Called /\ "tables" \notin DOMAIN schema) => pc = "raised"

\* C9 as amended: a call on an input without the `tables` field treats it
\* as a schema of zero tables: it returns the empty mapping and does not
\* raise.
C9_MissingTablesIsEmpty ==
    (Called /\ "tables" \notin DOMAIN schema) =>
        /\ Returned
        /\ result.value = <<>>

\* C9 witness: the call on an input without `tables` has returned.
C9_Witness ==
    /\ "tables" \notin DOMAIN schema
    /\ Returned

\* Some table entry lacks `name` or `columns`, or some column entry lacks
\* `name` or `primary_key`.
MalformedEntry ==
    \E t \in TableIndices :
        \/ "name" \notin DOMAIN Tables[t]
        \/ "columns" \notin DOMAIN Tables[t]
        \/ \E c \in 1..Len(Tables[t]["columns"]) :
              \/ "name" \notin DOMAIN Tables[t]["columns"][c]
              \/ "primary_key" \notin DOMAIN Tables[t]["columns"][c]

\* C10: when a table entry lacks `name` or `columns`, or a column entry
\* lacks `name` or `primary_key`, the call raises and returns no result,
\* wherever the entry sits.
C10_MalformedEntryRaises ==
    (Called /\ MalformedEntry) =>
        /\ pc = "raised"
        /\ result.error = "KeyError"

\* The names of the unflagged columns of table t that have an eligible
\* table, in declared column order, from column c on.
RECURSIVE MatchedColumnsFrom(_, _)
MatchedColumnsFrom(t, c) ==
    IF c > Len(Tables[t]["columns"]) THEN <<>>
    ELSE LET name == Tables[t]["columns"][c]["name"]
         IN  (IF c \in Unflagged(t) /\ Eligible(t, name) # {}
              THEN << name >> ELSE <<>>) \o MatchedColumnsFrom(t, c + 1)

\* C11: foreign_keys of every record lists the accepted candidates in the
\* declared order of their columns, and the records are in the order of
\* schema.tables.
C11_DeclaredOrder ==
    Returned =>
        /\ \A t \in TableIndices :
              [k \in 1..Len(ForeignKeysOf(t)) |-> ForeignKeysOf(t)[k].column]
                  = MatchedColumnsFrom(t, 1)
        /\ \A t \in TableIndices :
              t <= Len(result.value) /\ result.value[t][1] = Tables[t]["name"]

\* C11 witness: a table with two foreign keys, in a schema of two tables,
\* has been inferred.
C11_Witness ==
    /\ Returned
    /\ Len(Tables) >= 2
    /\ \E t \in TableIndices :
          /\ Len(ForeignKeysOf(t)) = 2
          /\ ForeignKeysOf(t)[1].column # ForeignKeysOf(t)[2].column

\* C12: every confidence in the output lies in [0, 1] (0 to 100 hundredths).
C12_ConfidenceInUnitInterval ==
    Returned =>
        \A t \in TableIndices : \A k \in 1..Len(ForeignKeysOf(t)) :
            /\ ForeignKeysOf(t)[k].confidence >= 0
            /\ ForeignKeysOf(t)[k].confidence <= 100

\* C12 witness: a foreign key whose column passes more than one of the
\* scoring tests has been recorded.
C12_Witness ==
    /\ Returned
    /\ \E t \in TableIndices : \E k \in 1..Len(ForeignKeysOf(t)) :
          \E r \in TableIndices \ {t} :
              /\ FirstFlaggedName(r) # Null
              /\ ForeignKeysOf(t)[k].references = ReferenceTo(r)
              /\ ForeignKeysOf(t)[k].confidence = 100
              /\ _extract_base_name(Lower(ForeignKeysOf(t)[k].column))
                     \in VariantSet(Lower(Tables[r]["name"]))

\* C13: `references` of every foreign key is "<R>.<PK_R>" for a table R of
\* the schema other than the owner, PK_R being the non-null primary_key of
\* R's own record, both spelled as in the input, as is `column`.
C13_ReferencesOriginalSpelling ==
    Returned =>
        \A t \in TableIndices : \A k \in 1..Len(ForeignKeysOf(t)) :
            /\ \E r \in TableIndices \ {t} :
                  /\ RecordOf(r).primary_key # Null
                  /\ ForeignKeysOf(t)[k].references =
                         FormatReference(Tables[r]["name"],
                                         RecordOf(r).primary_key)
            /\ \E c \in 1..Len(Tables[t]["columns"]) :
                  ForeignKeysOf(t)[k].column = Tables[t]["columns"][c]["name"]

\* C13 witness: a foreign key whose column differs from the referenced
\* primary key only in case, the referenced names containing capitals.
C13_Witness ==
    /\ Returned
    /\ \E t \in TableIndices : \E k \in 1..Len(ForeignKeysOf(t)) :
          \E r \in TableIndices \ {t} :
              /\ FirstFlaggedName(r) # Null
              /\ ForeignKeysOf(t)[k].references = ReferenceTo(r)
              /\ ForeignKeysOf(t)[k].column # FirstFlaggedName(r)
              /\ Lower(ForeignKeysOf(t)[k].column) = Lower(FirstFlaggedName(r))
              /\ Lower(ReferenceTo(r)) # ReferenceTo(r)

\* The foreign-key entries of the whole output, as <<table index, position>>.
AllForeignKeys ==
    { <<t, k>> \in TableIndices \X (1..MaxColumns) : k <= Len(ForeignKeysOf(t)) }

Built == graph # NoGraph

\* C18: the graph has one edge per foreign-key entry, labelled with the
\* entry's column and carrying its confidence.
C18_OneEdgePerForeignKey ==
    Built =>
        /\ Len(graph.edges) = Cardinality(AllForeignKeys)
        /\ \A e \in AllForeignKeys :
              \E x \in 1..Len(graph.edges) :
                  /\ graph.edges[x][1][1] = Tables[e[1]]["name"]
                  /\ graph.edges[x][2] =
                         [label |-> ForeignKeysOf(e[1])[e[2]].column,
                          confidence |-> ForeignKeysOf(e[1])[e[2]].confidence]

\* C19: the nodes of the graph are the tables of the schema, and every edge
\* runs from the owner of a foreign key to the table its `references` was
\* built from.
C19_NodesAreTables ==
    Built =>
        /\ Keys(graph.nodes) = { Tables[t]["name"] : t \in TableIndices }
        /\ \A x \in 1..Len(graph.edges) :
              \E t \in TableIndices, r \in TableIndices :
                  /\ graph.edges[x][1] = <<Tables[t]["name"], Tables[r]["name"]>>
                  /\ FirstFlaggedName(r) # Null
                  /\ \E k \in 1..Len(ForeignKeysOf(t)) :
                        ForeignKeysOf(t)[k].references = ReferenceTo(r)

CalledTwice == pc = "returned" /\ previous # NotCalled

\* C14: a second call on the same schema returns what the first returned,
\* whatever order the interpreter iterates its sets in.
C14_Deterministic == CalledTwice => result = previous

\* C14 witness: the second call ran under another hash seed than the first,
\* and matched a column through the variants of a table name.
C14_Witness ==
    /\ CalledTwice
    /\ hash_seed # DefaultSeed
    /\ \E t \in TableIndices : \E k \in 1..Len(ForeignKeysOf(t)) :
          ForeignKeysOf(t)[k].confidence = ConfidenceVariant

\* The fields of a schema that inference reads: the tables with their names
\* and the columns with their names and flags.
ReadFields(s) ==
    [tables |->
        [t \in 1..Len(s.tables) |->
            [name |-> s.tables[t].name,
             columns |->
                 [c \in 1..Len(s.tables[t].columns) |->
                     [name |-> s.tables[t].columns[c].name,
                      primary_key |-> s.tables[t].columns[c].primary_key]]]]]

\* C15: two schemas that differ only in `database`, column `type` or column
\* `nullable` get the same output.
C15_OtherFieldsIgnored ==
    /\ CalledTwice => result = previous
    /\ Returned => result = infer_relationships(ReadFields(schema))

\* C15 witness: the second call was on a schema with another database, type
\* and nullable than the first, the nullable column being a primary key.
C15_Witness ==
    /\ CalledTwice
    /\ "database" \in DOMAIN schema
    /\ \E t \in TableIndices : \E c \in 1..Len(Tables[t]["columns"]) :
          /\ "type" \in DOMAIN Tables[t]["columns"][c]
          /\ DictGet(Tables[t]["columns"][c], "nullable", FALSE)
          /\ Tables[t]["columns"][c]["primary_key"]
    /\ \E t \in TableIndices : ForeignKeysOf(t) # <<>>

Done(p) == calls[p].pc = "done"

\* The objects of the arguments of both invocations.
InputObjects == UNION { Reach(heap, <<"schema", p>>) : p \in Invocations }

\* C16: the argument of a call holds the value it was given, whatever the
\* calls and the callers' mutations of results do; a result shares no object
\* with an argument or with the other result; and the result of a call is
\* what inference gives for its argument also when the other result has been
\* mutated.
C16_InputUnchangedResultFresh ==
    /\ \A p \in Invocations :
          Done(p) => Reach(heap, ResultOf(p)) \cap InputObjects = {}
    /\ \A p \in Invocations, q \in Invocations :
          Done(p) /\ Done(q) /\ p # q =>
              Reach(heap, ResultOf(p)) \cap Reach(heap, ResultOf(q)) = {}
    /\ \A p \in Invocations :
          calls[p].pc # "idle" => SchemaValue(heap, p) = calls[p].given
    /\ \A p \in Invocations, q \in Invocations :
          Done(p) /\ ~calls[p].mutated /\ calls[q].mutated =>
              ResultValue(heap, ResultOf(p))
                  = infer_relationships(calls[p].given).value

\* C16 witness: a call that started after the other result was mutated has
\* returned foreign keys for a schema that has them.
C16_Witness ==
    \E p \in Invocations, q \in Invocations :
        /\ Done(p) /\ ~calls[p].mutated /\ calls[q].mutated
        /\ \E k \in 1..Len(ResultValue(heap, ResultOf(p))) :
              ResultValue(heap, ResultOf(p))[k][2].foreign_keys # <<>>
        /\ \E k \in 1..Len(infer_relationships(calls[q].given).value) :
              infer_relationships(calls[q].given).value[k][2].foreign_keys # <<>>

\* C17: every invocation, however its steps interleave with those of the
\* other, returns what a call running alone returns for its schema.
C17_InterleavingSameResult ==
    \A p \in Invocations :
        Done(p) /\ ~calls[p].mutated =>
            ResultValue(heap, ResultOf(p))
                = infer_relationships(SchemaValue(heap, p)).value

\* C17 witness: both invocations are done, one entered while the other was
\* inside its loops, and both found foreign keys.
C17_Witness ==
    /\ \A p \in Invocations :
          /\ Done(p) /\ ~calls[p].mutated
          /\ \E k \in 1..Len(ResultValue(heap, ResultOf(p))) :
                ResultValue(heap, ResultOf(p))[k][2].foreign_keys # <<>>
    /\ \E p \in Invocations : calls[p].overlapped
    /\ SchemaValue(heap, 1) # SchemaValue(heap, 2)

\* The builder and the files are as they were before the last call.
NothingChanged == self = api.before.self /\ files = api.before.files

\* C20: infer_relationships_only without a schema, last_schema being None,
\* raises ValueError; so does create_visualization when it is given no schema
\* and last_schema is None, or no relationships and last_relationships is
\* None; last_schema, last_relationships and the files stay as they were.
C20_MissingInputRaises ==
    /\ ( /\ api.method = "infer_relationships_only"
         /\ api.schema = None
         /\ api.before.self.last_schema = None )
       => /\ api.outcome = ValueError(NoSchemaMessage)
          /\ NothingChanged
    /\ ( /\ api.method = "create_visualization"
         /\ \/ api.schema = None /\ api.before.self.last_schema = None
            \/ /\ api.relationships = None
               /\ api.before.self.last_relationships = None )
       => /\ IsRaise(api.outcome)
          /\ api.outcome.error = "ValueError"
          /\ NothingChanged

\* C20 witness: create_visualization was called with a schema and without
\* relationships on a builder that has a last_schema, no last_relationships
\* and files from an earlier visualization.
C20_Witness ==
    /\ api.method = "create_visualization"
    /\ api.schema # None
    /\ ~BuildGraphRaises(api.schema)
    /\ api.relationships = None
    /\ api.before.self.last_relationships = None
    /\ api.before.self.last_schema # None
    /\ files # {}

\* C27: every confidence in the output is 1.0, 0.95 or 0.9: the 0.7 and 0.5
\* branches of _calculate_confidence are not reached for an accepted match.
C27_OnlyTopThreeTiers ==
    Returned =>
        \A t \in TableIndices : \A k \in 1..Len(ForeignKeysOf(t)) :
            ForeignKeysOf(t)[k].confidence
                \in {ConfidenceExact, ConfidenceBase, ConfidenceVariant}

\* C27 witness: a foreign key of the lowest accepted tier has been recorded,
\* to a primary key with an empty base name (the substring test of the 0.7
\* branch does not apply to it, the 0.5 fallback would be next).
C27_Witness ==
    /\ Returned
    /\ \E t \in TableIndices : \E k \in 1..Len(ForeignKeysOf(t)) :
          \E r \in TableIndices \ {t} :
              /\ FirstFlaggedName(r) # Null
              /\ ForeignKeysOf(t)[k].references = ReferenceTo(r)
              /\ ForeignKeysOf(t)[k].confidence = ConfidenceVariant
              /\ _extract_base_name(Lower(FirstFlaggedName(r))) = <<>>

\* C28: no column whose primary-key flag is set is the `column` of an entry
\* of its table's foreign_keys, whether or not it is the reported
\* primary_key.
C28_FlaggedNeverForeignKey ==
    Returned =>
        \A t \in TableIndices : \A c \in Flagged(t) :
            EntriesFor(t, Tables[t]["columns"][c]["name"]) = {}

\* C28 witness: a flagged column that is not its table's reported
\* primary_key, and whose name matches another table's primary key, has been
\* passed over.
C28_Witness ==
    /\ Returned
    /\ \E t \in TableIndices : \E c \in Flagged(t) :
          /\ Tables[t]["columns"][c]["name"] # RecordOf(t).primary_key
          /\ Eligible(t, Tables[t]["columns"][c]["name"]) # {}

\* extract_base_name of section 4.2 of the specification: the lowercased
\* name without its trailing "_id", else without its trailing "id".
SpecBaseName(name) ==
    LET l == Lower(name)
    IN  IF EndsWith(l, <<"_", "i", "d">>) THEN SubSeq(l, 1, Len(l) - 3)
        ELSE IF EndsWith(l, <<"i", "d">>) THEN SubSeq(l, 1, Len(l) - 2)
        ELSE l

\* table_name_variants of section 4.2 of the specification.
SpecVariants(t) ==
    LET l == Lower(t)
        parts == Split(l, "_")
    IN  { l }
        \cup (IF \E i \in 1..Len(l) : l[i] = "_"
              THEN { parts[i] : i \in 1..Len(parts) } \cup { Join(parts) }
              ELSE {})
        \cup (IF Len(l) > 1 /\ l[Len(l)] = "s"
              THEN { SubSeq(l, 1, Len(l) - 1) } ELSE {})
        \cup (IF l = <<>> \/ l[Len(l)] # "s" THEN { l \o <<"s">> } ELSE {})

IsLower(name) == Lower(name) = name

Applied(fn) == value # NotCalled /\ value.fn = fn

\* C22 as stated: is_match is true exactly when the names are equal ignoring
\* case, or their base names are equal and non-empty, or the base name of
\* the column is among the variants of the table name.
C22_MatchIffThreeCases ==
    Applied("_is_foreign_key_match") =>
        value.out =
            ( \/ Lower(args.column_name) = Lower(args.ref_pk)
              \/ /\ SpecBaseName(args.column_name) = SpecBaseName(args.ref_pk)
                 /\ SpecBaseName(args.column_name) # <<>>
              \/ SpecBaseName(args.column_name)
                     \in SpecVariants(args.ref_table_name) )

\* C22 amended: as above, but the base name of the column counts as a
\* variant of the table name only when it is not empty.
C22_MatchIffThreeCasesNonEmpty ==
    Applied("_is_foreign_key_match") =>
        value.out =
            ( \/ Lower(args.column_name) = Lower(args.ref_pk)
              \/ /\ SpecBaseName(args.column_name) = SpecBaseName(args.ref_pk)
                 /\ SpecBaseName(args.column_name) # <<>>
              \/ /\ SpecBaseName(args.column_name) # <<>>
                 /\ SpecBaseName(args.column_name)
                        \in SpecVariants(args.ref_table_name) )

\* C22 witness: a column with an empty base name was tried against a table
\* whose variants include the empty string, and was not matched.
C22_Witness ==
    /\ Applied("_is_foreign_key_match")
    /\ ~value.out
    /\ args.column_name # <<>>
    /\ SpecBaseName(args.column_name) = <<>>
    /\ <<>> \in SpecVariants(args.ref_table_name)

Elements(list) == { list[k] : k \in 1..Len(list) }

C25_EngineReleasedOnEveryPath ==
    connector.pc = "idle" =>
        /\ connector.engine = None
        /\ connector.disposed = 1..connector.created
        /\ Len(connector.outcomes) > 0 =>
               connector.outcomes[Len(connector.outcomes)] =
                   IF connector.failed = None THEN Return("schema")
                   ELSE connector.failed

\* Extraction failed on an engine whose dispose() raised, and the caller got
\* the extraction error; another call returned the schema.
C25_Witness ==
    /\ connector.pc = "idle"
    /\ Len(connector.outcomes) = 2
    /\ connector.outcomes[1] = ConnectorError("_extract_schema_data")
    /\ connector.outcomes[2] = Return("schema")
    /\ connector.dispose_raised = {1}
    /\ connector.disposed = {1, 2}


\* C21: a create_visualization call that returns has written the HTML file
\* to the path it returns, and the visualization_html path analyze_database
\* reports is a file build_graph wrote.
C21_ReturnedHtmlPathIsWritten ==
    /\ (api.method = "create_visualization" /\ ~IsRaise(api.outcome))
           => api.outcome.value \in files
    /\ ( /\ api.method = "analyze_database"
         /\ ~IsRaise(api.outcome)
         /\ "visualization_html" \in DOMAIN api.outcome.value.output_files )
           => api.outcome.value.output_files["visualization_html"] \in files

\* C26: after create_visualization, however it ended, no temporary file is
\* left behind: none of the temporary files the call created exists.
C26_TempFileRemoved ==
    api.method = "create_visualization" =>
        /\ api.temp_files \cap files = {}
        /\ files \cap TempNames = {}

\* C29: whenever last_schema and last_relationships are both set,
\* last_relationships is what infer_relationships returns for last_schema.
C29_RelationshipsBelongToSchema ==
    (self.last_schema # None /\ self.last_relationships # None)
        => /\ ~IsRaise(Inferred[self.last_schema])
           /\ self.last_relationships = Some(Inferred[self.last_schema].value)

\* C30: when analyze_database raises, last_schema and last_relationships are
\* what they were before the call.
C30_RaiseLeavesBuilderUnchanged ==
    (api.method = "analyze_database" /\ IsRaise(api.outcome))
        => /\ self.last_schema = api.before.self.last_schema
           /\ self.last_relationships = api.before.self.last_relationships

====
